---- MODULE Spec2Model ----
(***************************************************************************)
(* Model of openpnm/_skgraph/generators/_gabriel.py: gabriel() filters the *)
(* edges of a Delaunay tessellation down to the Gabriel edges.             *)
(*                                                                         *)
(* Coordinates are integers (a lattice; Scenario B is scaled by 10).  The  *)
(* code compares the distances n and r, which are square roots; the model  *)
(* keeps their squares, scaled by 4 so that the midpoint needs no halving: *)
(*   m2 = 2*m,  r4 = 4*r^2,  n4 = 4*n^2,                                   *)
(* and  n >= r*0.999  <=>  1000^2 * n4 >= 999^2 * r4  (n, r >= 0).         *)
(* Node indices are zero-based as in the code; sequences are one-based.    *)
(***************************************************************************)
EXTENDS Integers, Sequences, FiniteSets, TLC

VARIABLES pc, points, delaunay, node_prefix, edge_prefix, d, err, d2

vars == <<pc, points, delaunay, node_prefix, edge_prefix, d, err, d2>>

(* ---- bounds of the explored inputs ---- *)
MaxX == 2
MaxNodes == 3

(* ---- optional values (Python None) ---- *)
None == <<>>
Some(x) == <<x>>
Val(o) == o[1]

(* ---- dictionaries keyed by strings ---- *)
Put(dct, k, v) == [x \in (DOMAIN dct) \cup {k} |-> IF x = k THEN v ELSE dct[x]]

Graph(coords, conns) == [x \in {"node.coords", "edge.conns"} |->
                           IF x = "node.coords" THEN coords ELSE conns]

(* ---- geometry on the lattice ---- *)
Sq(x) == x * x
Dist2(p, q) == Sq(p[1] - q[1]) + Sq(p[2] - q[2])
Twice(p) == <<2 * p[1], 2 * p[2]>>

SetMin(S) == CHOOSE x \in S : \A y \in S : x <= y

(* the factor 0.999 of line 49, as the fraction TolNum/TolDen *)
TolNum == 999
TolDen == 1000

(* c = delaunay['node.coords'][delaunay['edge.conns']] *)
c(dl) ==
  LET coords == dl["node.coords"]
      conns == dl["edge.conns"]
  IN [e \in 1..Len(conns) |-> <<coords[conns[e][1] + 1], coords[conns[e][2] + 1]>>]

(* faulty variant: the midpoint sum without the halving *)
m2NoHalf(dl) ==
  LET cc == c(dl)
  IN [e \in DOMAIN cc |-> Twice(<<cc[e][1][1] + cc[e][2][1], cc[e][1][2] + cc[e][2][2]>>)]

(* m = (c[:,0,:] + c[:,1,:])/2, kept as 2*m *)
m2(dl) ==
  LET cc == c(dl)
  IN [e \in DOMAIN cc |-> <<cc[e][1][1] + cc[e][2][1], cc[e][1][2] + cc[e][2][2]>>]

(* faulty variant: the edge length without the halving *)
r4NoHalf(dl) ==
  LET cc == c(dl)
  IN [e \in DOMAIN cc |-> 4 * Dist2(cc[e][1], cc[e][2])]

(* r = sqrt(sum((c[:,0,:] - c[:,1,:])**2, axis=1))/2, kept as 4*r^2 *)
r4(dl) ==
  LET cc == c(dl)
  IN [e \in DOMAIN cc |-> Dist2(cc[e][1], cc[e][2])]

(* faulty variant: the tree built over the edge endpoints instead of all nodes *)
treeEndpoints(dl) == {c(dl)[e][k] : e \in 1..Len(dl["edge.conns"]), k \in {1, 2}}

(* tree = cKDTree(delaunay['node.coords']): the indexed points *)
tree(dl) == {dl["node.coords"][k] : k \in 1..Len(dl["node.coords"])}

(* tree.query(x, k=1)[0]: distance from x to the nearest indexed point *)
query4(t, x2) == SetMin({Dist2(Twice(p), x2) : p \in t})

(* n = tree.query(x=m, k=1)[0], kept as 4*n^2 *)
n4(dl) ==
  LET t == tree(dl)
      mm == m2(dl)
  IN [e \in DOMAIN mm |-> query4(t, mm[e])]

(* faulty variant: the tolerance factor on the wrong side, n*0.999 >= r *)
AtLeastWrongSide(nsq, rsq) == nsq > rsq /\ Sq(TolNum) * nsq >= Sq(TolDen) * rsq

(* n >= r*0.999 on the squares 4*n^2 and 4*r^2:                            *)
(*   TolDen^2 * nsq >= TolNum^2 * rsq                                      *)
(*   <=> TolDen^2 * (rsq - nsq) <= (TolDen^2 - TolNum^2) * rsq.            *)
(* The first two lines settle the cases far from the boundary, so that the *)
(* products stay within 32 bits.                                           *)
AtLeast(nsq, rsq) ==
  \/ nsq >= rsq
  \/ /\ 500 * (rsq - nsq) <= rsq
     /\ Sq(TolDen) * (rsq - nsq) <= (Sq(TolDen) - Sq(TolNum)) * rsq

(* faulty variant: strict comparison, the tolerance factor dropped *)
gStrict(dl) ==
  LET nn == n4(dl)
      rr == r4(dl)
  IN [e \in DOMAIN rr |-> nn[e] > rr[e]]

(* g = n >= r*(0.999) *)
g(dl) ==
  LET nn == n4(dl)
      rr == r4(dl)
  IN [e \in DOMAIN rr |-> AtLeast(nn[e], rr[e])]

(* faulty variant: the kept rows collected back to front *)
RECURSIVE MaskReversed(_, _)
MaskReversed(a, mask) ==
  IF a = <<>> THEN <<>>
  ELSE MaskReversed(Tail(a), Tail(mask)) \o (IF Head(mask) THEN <<Head(a)>> ELSE <<>>)

(* boolean-mask indexing a[mask] *)
RECURSIVE Mask(_, _)
Mask(a, mask) ==
  IF a = <<>> THEN <<>>
  ELSE (IF Head(mask) THEN <<Head(a)>> ELSE <<>>) \o Mask(Tail(a), Tail(mask))

(* faulty variant: nodes left without a retained edge are dropped from the coordinates *)
AssembleDropIsolated(dl, np, ep) ==
  LET kept == Mask(dl["edge.conns"], g(dl))
      used == [k \in 1..Len(dl["node.coords"]) |->
                 \E e \in 1..Len(kept) : k - 1 \in {kept[e][1], kept[e][2]}]
  IN Put(Put(dl, ep \o ".conns", kept), np \o ".coords", Mask(dl["node.coords"], used))

(* lines 50-55: d = {}; d.update(delaunay); the two assignments *)
Assemble(dl, np, ep) ==
  Put(Put(dl, ep \o ".conns", Mask(dl["edge.conns"], g(dl))),
      np \o ".coords", dl["node.coords"])

(* ---- inputs ---- *)
(* a lattice of two rows: enough for a node to fall inside, on or outside *)
(* the diametral circle of an edge *)
Grid == (0..MaxX) \X {0, 1}

(* the points of a set in scan order (by column, then row) *)
ScanKey(p) == 2 * p[1] + p[2]
RECURSIVE Scan(_)
Scan(S) ==
  IF S = {} THEN <<>>
  ELSE LET p == CHOOSE q \in S : \A q2 \in S : ScanKey(q) <= ScanKey(q2)
       IN <<p>> \o Scan(S \ {p})
Rotate(s, k) == [i \in 1..Len(s) |-> s[((i + k - 1) % Len(s)) + 1]]

(* node sequences: 2..MaxNodes distinct lattice points, listed in scan order *)
(* from any starting point, so that every node takes every index           *)
PointSeqs ==
  UNION {{Rotate(Scan(S), k) : k \in 0..(Cardinality(S) - 1)} :
           S \in {T \in SUBSET Grid : Cardinality(T) >= 2 /\ Cardinality(T) <= MaxNodes}}

(* all index pairs i < j of n nodes, in index order *)
RECURSIVE PairsFrom(_, _, _)
PairsFrom(i, j, n) ==
  IF i >= n - 1 THEN <<>>
  ELSE IF j >= n THEN PairsFrom(i + 1, i + 2, n)
  ELSE <<<<i, j>>>> \o PairsFrom(i, j + 1, n)
AllPairs(n) == PairsFrom(0, 1, n)

RECURSIVE Sublists(_)
Sublists(a) ==
  IF a = <<>> THEN {<<>>}
  ELSE LET rest == Sublists(Tail(a))
       IN rest \cup {<<Head(a)>> \o t : t \in rest}

(* the candidate edge lists of n nodes: each unordered pair at most once *)
EdgeLists(n) == Sublists(AllPairs(n))

Square == <<<<0, 0>>, <<1, 0>>, <<0, 1>>, <<1, 1>>>>
SquareSides == <<<<0, 1>>, <<0, 2>>, <<1, 3>>, <<2, 3>>>>
SquareEdgeLists == {SquareSides \o <<<<0, 3>>>>, SquareSides \o <<<<1, 2>>>>,
                    SquareSides \o <<<<0, 3>>, <<1, 2>>>>}
Triangle == <<<<0, 0>>, <<10, 0>>, <<5, 1>>>>
NearCircle == <<<<0, 0>>, <<34, 31>>, <<1, 32>>>>

(* _delaunay(points, shape): node coordinates and candidate edges *)
Tessellations(pts) ==
  IF pts = Square THEN {Graph(pts, el) : el \in SquareEdgeLists}
  ELSE IF pts \in {Triangle, NearCircle} THEN {Graph(pts, AllPairs(3))}
  ELSE {Graph(pts, el) : el \in EdgeLists(Len(pts))}

AllPointSeqs == PointSeqs \cup {Square, Triangle, NearCircle}

NodePrefixes == {"node", "vert"}
EdgePrefixes == {"edge", "bond"}

Init ==
  /\ pc = "call"
  /\ \/ points = None /\ delaunay = None
     \/ \E pts \in AllPointSeqs :
          \/ points = None /\ \E dl \in Tessellations(pts) : delaunay = Some(dl)
          \/ points = Some(pts) /\ delaunay = None
  /\ node_prefix \in NodePrefixes
  /\ edge_prefix \in EdgePrefixes
  /\ d = None
  /\ err = "none"
  /\ d2 = None

(* gabriel(points=...): lines 37-38, then 40-55 *)
GabrielPoints ==
  /\ pc = "call"
  /\ points # None
  /\ \E dl \in Tessellations(Val(points)) :
       /\ delaunay' = Some(dl)
       /\ d' = Some(Assemble(dl, node_prefix, edge_prefix))
  /\ pc' = "done"
  /\ UNCHANGED <<points, node_prefix, edge_prefix, err, d2>>

(* gabriel(delaunay=...): lines 40-55 *)
GabrielDelaunay ==
  /\ pc = "call"
  /\ points = None
  /\ delaunay # None
  /\ d' = Some(Assemble(Val(delaunay), node_prefix, edge_prefix))
  /\ pc' = "done"
  /\ UNCHANGED <<points, delaunay, node_prefix, edge_prefix, err, d2>>

(* gabriel(): line 40 subscripts None *)
GabrielNone ==
  /\ pc = "call"
  /\ points = None
  /\ delaunay = None
  /\ err' = "TypeError"
  /\ pc' = "raised"
  /\ UNCHANGED <<points, delaunay, node_prefix, edge_prefix, d, d2>>

(* gabriel(delaunay=d) on the returned graph, default prefixes *)
GabrielAgain ==
  /\ pc = "done"
  /\ d2' = Some(Assemble(Val(d), "node", "edge"))
  /\ pc' = "again"
  /\ UNCHANGED <<points, delaunay, node_prefix, edge_prefix, d, err>>

Next == GabrielPoints \/ GabrielDelaunay \/ GabrielNone \/ GabrielAgain

Spec == Init /\ [][Next]_vars

(* ======================= properties ======================= *)
(* gabriel has just returned d *)
Returned == pc = "done"
coordsIn == Val(delaunay)["node.coords"]
connsIn == Val(delaunay)["edge.conns"]
connsOut == Val(d)[edge_prefix \o ".conns"]
coordsOut == Val(d)[node_prefix \o ".coords"]
Range(s) == {s[i] : i \in DOMAIN s}
Positions(s, x) == {i \in DOMAIN s : s[i] = x}

Reverse(s) == [i \in 1..Len(s) |-> s[Len(s) + 1 - i]]

RECURSIVE IsSubseq(_, _)
IsSubseq(s, t) ==
  IF s = <<>> THEN TRUE
  ELSE IF t = <<>> THEN FALSE
  ELSE IF Head(s) = Head(t) THEN IsSubseq(Tail(s), Tail(t))
  ELSE IsSubseq(s, Tail(t))

(* squared distance, times 4, from node k to the midpoint of nodes i and j *)
ToMid4(coords, k, i, j) ==
  Dist2(Twice(coords[k + 1]),
        <<coords[i + 1][1] + coords[j + 1][1], coords[i + 1][2] + coords[j + 1][2]>>)
(* squared half-length, times 4, of the edge (i, j) *)
Half4(coords, i, j) == Dist2(coords[i + 1], coords[j + 1])
Nodes(coords) == 0..(Len(coords) - 1)
(* node k strictly inside the open diametral ball of (i, j) *)
Inside(coords, k, i, j) == ToMid4(coords, k, i, j) < Half4(coords, i, j)
(* node k at least (1 - 0.001) half-lengths from the midpoint, on the squares *)
Within(coords, k, i, j) ==
  \/ ~Inside(coords, k, i, j)
  \/ 1000000 * ToMid4(coords, k, i, j) >= 998001 * Half4(coords, i, j)
Near(coords, i, j) == \A k \in Nodes(coords) : Within(coords, k, i, j)

(* C1: the returned edge sequence is a subsequence of the candidate edge   *)
(* sequence: every returned edge is a candidate, none is added or          *)
(* duplicated, and the retained edges keep their relative order.           *)
C1_Subsequence ==
  Returned =>
    /\ IsSubseq(connsOut, connsIn)
    /\ \A x \in Range(connsOut) :
         Cardinality(Positions(connsOut, x)) <= Cardinality(Positions(connsIn, x))
C1_Witness ==
  /\ pc = "done"
  /\ Len(connsIn) = 3
  /\ connsOut = <<connsIn[1], connsIn[3]>>

(* C2: a candidate edge (i, j) is retained if and only if the minimum      *)
(* distance n from its midpoint to any node satisfies n >= r*(1 - 0.001),  *)
(* r being half its length; every candidate gets one decision.             *)
C2_RetainIff ==
  Returned =>
    LET gg == g(Val(delaunay))
        kept == Range(connsOut)
    IN /\ DOMAIN gg = DOMAIN connsIn
       /\ \A e \in DOMAIN connsIn :
            /\ gg[e] \in BOOLEAN
            /\ (connsIn[e] \in kept) <=> Near(coordsIn, connsIn[e][1], connsIn[e][2])
C2_Witness ==
  /\ pc = "done"
  /\ \E e, f \in DOMAIN connsIn :
       /\ connsIn[e] \in Range(connsOut)
       /\ connsIn[f] \notin Range(connsOut)

(* C3 as claimed: every retained edge has no node strictly inside its open *)
(* diametral ball.                                                         *)
C3_NoNodeInside ==
  Returned =>
    \A e \in DOMAIN connsOut : \A k \in Nodes(coordsIn) :
      ~Inside(coordsIn, k, connsOut[e][1], connsOut[e][2])
(* C3 amended: every retained edge has no node closer to its midpoint than *)
(* 0.999 times its half-length.                                            *)
C3_NoNodeInsideTolerance ==
  Returned =>
    \A e \in DOMAIN connsOut : \A k \in Nodes(coordsIn) :
      Within(coordsIn, k, connsOut[e][1], connsOut[e][2])
C3_Witness ==
  /\ pc = "done"
  /\ \E e \in DOMAIN connsOut : \E k \in Nodes(coordsIn) :
       Inside(coordsIn, k, connsOut[e][1], connsOut[e][2])

(* C4 as claimed: for (0,0), (1,0), (0.5,0.1) with its three edges as      *)
(* candidates, all 3 edges are retained.                                   *)
C4_AllThreeRetained ==
  (Returned /\ coordsIn = Triangle /\ connsIn = AllPairs(3)) => Len(connsOut) = 3
(* C4 amended: the two short edges (0,2) and (1,2) are retained and the    *)
(* long edge (0,1) is discarded, (0.5,0.1) lying inside its circle.        *)
C4_TwoRetained ==
  (Returned /\ coordsIn = Triangle /\ connsIn = AllPairs(3)) =>
    /\ connsOut = <<<<0, 2>>, <<1, 2>>>>
    /\ Inside(coordsIn, 2, 0, 1)
C4_Witness == pc = "done" /\ coordsIn = Triangle /\ connsIn = AllPairs(3)

(* C5: a candidate edge whose midpoint's nearest node is at exactly its    *)
(* half-length is retained; for the unit square every candidate edge, the  *)
(* sides and either diagonal, is retained.                                 *)
C5_ExactTieRetained ==
  Returned =>
    /\ \A e \in DOMAIN connsIn :
         (\A k \in Nodes(coordsIn) : ~Inside(coordsIn, k, connsIn[e][1], connsIn[e][2]))
           => connsIn[e] \in Range(connsOut)
    /\ coordsIn = Square => connsOut = connsIn
C5_Witness ==
  /\ pc = "done"
  /\ coordsIn = Square
  /\ {<<0, 3>>, <<1, 2>>} \subseteq Range(connsIn)
  /\ Len(connsOut) = 6

(* C6 as claimed: called with neither points nor delaunay, gabriel fails   *)
(* with a ConfigurationError and returns no graph.                         *)
C6_ConfigurationError ==
  (points = None /\ delaunay = None /\ pc # "call") =>
    (err = "ConfigurationError" /\ d = None)

(* C7 as claimed: for every node_prefix and edge_prefix the result exposes *)
(* exactly the two collections node_prefix.coords (the input coordinates)  *)
(* and edge_prefix.conns (the retained edges), and no collection of edges  *)
(* still holds a discarded candidate.                                      *)
C7_TwoCollections ==
  Returned =>
    /\ DOMAIN Val(d) = {node_prefix \o ".coords", edge_prefix \o ".conns"}
    /\ coordsOut = coordsIn
    /\ connsOut = Mask(connsIn, g(Val(delaunay)))
    /\ \A key \in (DOMAIN Val(d)) \cap {p \o ".conns" : p \in EdgePrefixes} :
         Range(Val(d)[key]) \subseteq Range(connsOut)

(* C8: the returned node coordinate sequence is the tessellation's, in     *)
(* length, order and content; a node all of whose candidate edges are      *)
(* discarded keeps its index.                                              *)
C8_NodesUnchanged ==
  Returned =>
    /\ Len(coordsOut) = Len(coordsIn)
    /\ \A k \in DOMAIN coordsIn : coordsOut[k] = coordsIn[k]
C8_Witness ==
  /\ pc = "done"
  /\ \E k \in Nodes(coordsIn) :
       /\ \E e \in DOMAIN connsIn : k \in {connsIn[e][1], connsIn[e][2]}
       /\ \A e \in DOMAIN connsOut : k \notin {connsOut[e][1], connsOut[e][2]}
       /\ coordsOut[k + 1] = coordsIn[k + 1]

(* the candidates contain an edge joining a closest pair of nodes *)
HasClosestPairEdge(coords, conns) ==
  \E e \in DOMAIN conns :
    \A a, b \in Nodes(coords) :
      a # b => Half4(coords, conns[e][1], conns[e][2]) <= Half4(coords, a, b)
ValidEdges(coords, conns) ==
  \A e \in DOMAIN conns :
    /\ conns[e][1] \in Nodes(coords)
    /\ conns[e][2] \in Nodes(coords)
    /\ conns[e][1] # conns[e][2]

(* C9: for at least two distinct nodes and valid candidates containing the *)
(* edge of a closest pair, the number of returned edges is greater than 0  *)
(* and at most the number of candidates, and every index pair is valid.    *)
C9_EdgeCount ==
  (Returned /\ Len(coordsIn) >= 2 /\ ValidEdges(coordsIn, connsIn)
     /\ HasClosestPairEdge(coordsIn, connsIn)) =>
    /\ Len(connsOut) > 0
    /\ Len(connsOut) <= Len(connsIn)
    /\ ValidEdges(coordsOut, connsOut)
C9_Witness ==
  /\ pc = "done"
  /\ ValidEdges(coordsIn, connsIn)
  /\ HasClosestPairEdge(coordsIn, connsIn)
  /\ Len(connsOut) < Len(connsIn)
  /\ Len(coordsIn) = 3

(* C10: the decision for a candidate edge depends only on the coordinates  *)
(* and its endpoints, not on the other candidates or their order; and      *)
(* gabriel on its own output (default prefixes) returns that output's      *)
(* edge sequence unchanged.                                                *)
C10_IndependentIdempotent ==
  /\ Returned =>
       LET gg == g(Val(delaunay))
           back == g(Graph(coordsIn, Reverse(connsIn)))
       IN \A e \in DOMAIN connsIn :
            /\ gg[e] = g(Graph(coordsIn, <<connsIn[e]>>))[1]
            /\ gg[e] = back[Len(connsIn) + 1 - e]
  /\ (pc = "again" /\ node_prefix = "node" /\ edge_prefix = "edge") =>
       /\ Val(d2)["edge.conns"] = Val(d)["edge.conns"]
       /\ Val(d2)["node.coords"] = Val(d)["node.coords"]
C10_Witness ==
  /\ pc = "again"
  /\ node_prefix = "node"
  /\ edge_prefix = "edge"
  /\ Len(connsIn) = 3
  /\ Len(Val(d)["edge.conns"]) = 2
  /\ Len(Val(d2)["edge.conns"]) = 2
====
